---- MODULE Spec2Model ----
(***************************************************************************)
(* Model of the resume-editor PDF export pipeline.                         *)
(*                                                                         *)
(*   backend-app/api/export.py            export_resume_pdf,               *)
(*                                        export_pdf_from_html             *)
(*   backend-app/services/pdf_service.py  PDFService.generate_pdf_from_*   *)
(*                                        PDFService._generate_pdf_with_   *)
(*                                        playwright,                      *)
(*                                        PDFService._render_resume_       *)
(*                                        template and its helpers         *)
(*                                                                         *)
(* Every export request is an asyncio task.  A request suspends at each    *)
(* `await` on the Playwright engine; the engine answers each call by       *)
(* returning or by raising, and asyncio.wait_for may cancel the call that  *)
(* is in flight when max_generation_time expires.  The engine and the      *)
(* clock are the environment: their answers are nondeterministic.          *)
(*                                                                         *)
(* Strings are sequences of one-character strings; an exception message    *)
(* is the sequence of the text segments it is concatenated from.           *)
(***************************************************************************)
EXTENDS Integers, Sequences, FiniteSets, TLC

\* ---------------------------------------------------------------- bounds
\* Number of export requests that may be in flight at the same time.
NumRequests == 2

\* ------------------------------------------------------ program constants
\* PDFService.__init__: self.max_pdf_size = 1.5 * 1024 * 1024
max_pdf_size == 1572864
\* PDFService.__init__: self.max_generation_time = 30
max_generation_time == 30

Requests == 1..NumRequests

\* Sizes (in bytes) of the PDF the engine may hand back from page.pdf().
PdfSizes == {1024, max_pdf_size, max_pdf_size + 1}

\* html_content values a caller may send: empty, blank, and real markup.
HtmlValues == {<<>>, <<" ">>, <<"<", "p", ">">>}

Range(s) == {s[i] : i \in DOMAIN s}

\* ------------------------------------------------------------ str.strip()
RECURSIVE LStrip(_)
LStrip(s) == IF s # <<>> /\ Head(s) = " " THEN LStrip(Tail(s)) ELSE s

RECURSIVE RStrip(_)
RStrip(s) ==
    IF s # <<>> /\ s[Len(s)] = " " THEN RStrip(SubSeq(s, 1, Len(s) - 1)) ELSE s

Strip(s) == RStrip(LStrip(s))

\* ------------------------------------------------------------- exceptions
\* One record shape for every exception; `type` is the Python class.
NoExc ==
    [type |-> "none", status |-> 0, error |-> "", message |-> <<>>,
     suggestion |-> "", actual |-> 0, max |-> 0]

\* An exception raised by the Playwright engine; diag is its text.
EngineError(diag) == [NoExc EXCEPT !.type = "Error", !.message = <<diag>>]

\* asyncio.CancelledError (a BaseException, not an Exception).
CancelledError == [NoExc EXCEPT !.type = "CancelledError"]

\* asyncio.TimeoutError raised by asyncio.wait_for.
TimeoutError == [NoExc EXCEPT !.type = "TimeoutError"]

\* json decoding failure of `await request.json()`.
JSONDecodeError ==
    [NoExc EXCEPT !.type = "JSONDecodeError", !.message = <<"Expecting value">>]

\* Python's TypeError, as raised by a call with an unexpected keyword.
TypeError(msg) == [NoExc EXCEPT !.type = "TypeError", !.message = msg]

PDFGenerationError(msg) ==
    [NoExc EXCEPT !.type = "PDFGenerationError", !.message = msg]

HTTPException(code, kind, msg, sugg, act, mx) ==
    [type |-> "HTTPException", status |-> code, error |-> kind,
     message |-> msg, suggestion |-> sugg, actual |-> act, max |-> mx]

\* isinstance(e, Exception): everything raised here except CancelledError.
IsException(e) == e.type \notin {"none", "CancelledError"}

\* str(e).  starlette's HTTPException prints "<status>: <detail>".
Str(e) ==
    IF e.type = "HTTPException"
    THEN <<ToString(e.status), ": ", e.error>> \o e.message \o <<e.suggestion>>
    ELSE e.message

\* ------------------------------------------------- results of a call
Returned(n) == [ok |-> TRUE, size |-> n, exc |-> NoExc]
Raised(e) == [ok |-> FALSE, size |-> 0, exc |-> e]
NoResult == Raised(NoExc)

\* ------------------------------------------------------------ responses
\* What the HTTP client receives.  status 0: no response yet.
NoResponse ==
    [status |-> 0, error |-> "", message |-> <<>>, suggestion |-> "",
     actual |-> 0, max |-> 0, size |-> 0, filename |-> <<>>]

\* Response(content=pdf_bytes, media_type="application/pdf", ...)
PdfResponse(n) == [NoResponse EXCEPT !.status = 200, !.size = n]

\* FastAPI's answer to a raised HTTPException: its status and its detail.
ErrorResponse(e) ==
    [status |-> e.status, error |-> e.error, message |-> e.message,
     suggestion |-> e.suggestion, actual |-> e.actual, max |-> e.max,
     size |-> 0, filename |-> <<>>]

\* An exception that leaves a handler uncaught: a bare 500 without detail.
UnhandledResponse == [NoResponse EXCEPT !.status = 500]

\* FastAPI's answer to a body that fails the validation of the declared
\* parameter model: 422 with the list of validation errors as detail, and
\* the handler is not called.
ValidationErrorResponse(msg) == [NoResponse EXCEPT !.status = 422, !.message = msg]

\* --------------------------------------- PDFService.generate_pdf_from_html
\* line 48: `if not html_content.strip()`
HtmlIsBlank(html) == Strip(html) = <<>>

EmptyHtmlError == PDFGenerationError(<<"HTML content cannot be empty">>)

\* lines 52-65: the keys of the default pdf_options.
DefaultPdfOptions ==
    {"format", "margin", "print_background", "prefer_css_page_size",
     "display_header_footer", "header_template", "footer_template"}

\* lines 67-68: `if options: pdf_options.update(options)`, as the set of keys
\* of the resulting dict.
PdfOptions(options) == DefaultPdfOptions \cup options

\* line 164: the keyword parameters of Playwright's Page.pdf().
PdfParameters ==
    DefaultPdfOptions \cup
    {"scale", "landscape", "page_ranges", "width", "height", "path", "outline", "tagged"}

\* line 164: `page.pdf(**pdf_options)` before the engine is contacted: a key
\* that is no parameter of Page.pdf() raises TypeError, otherwise nothing is
\* raised here.
PdfCall(keys) ==
    IF keys \subseteq PdfParameters THEN Raised(NoExc)
    ELSE Raised(TypeError(<<"Page.pdf() got an unexpected keyword argument">>))

\* lines 72-75: asyncio.wait_for(inner, timeout).  The inner task ends with
\* CancelledError only when the timeout cancelled it; wait_for turns that
\* into TimeoutError and passes every other outcome through.
WaitFor(inner) ==
    IF ~inner.ok /\ inner.exc.type = "CancelledError"
    THEN Raised(TimeoutError)
    ELSE inner

TooLargeException(n) ==
    HTTPException(413, "PDF_TOO_LARGE",
                  <<"Generated PDF exceeds size limit of ", "1.5", "MB">>,
                  "Consider reducing content or using a more compact layout",
                  n, max_pdf_size)

TimeoutException ==
    HTTPException(408, "PDF_GENERATION_TIMEOUT",
                  <<"PDF generation timed out after ",
                    ToString(max_generation_time), " seconds">>,
                  "Try with simpler content or contact support if the issue persists",
                  0, 0)

\* SizeCheck with the comparison off by one byte.
SizeCheckOffByOne(w) ==
    IF w.ok /\ w.size > max_pdf_size + 1 THEN Raised(TooLargeException(w.size)) ELSE w

\* lines 77-90: the size check, inside the try block.
SizeCheck(w) ==
    IF w.ok /\ w.size > max_pdf_size THEN Raised(TooLargeException(w.size)) ELSE w

\* lines 92-103: the except clauses of the try block, in order.  The
\* HTTPException of the size check is raised inside the try block and is an
\* Exception, so the last clause catches it too.
GenerateExcept(b) ==
    IF b.ok THEN b
    ELSE IF b.exc.type = "TimeoutError" THEN Raised(TimeoutException)
    ELSE IF IsException(b.exc)
         THEN Raised(PDFGenerationError(<<"Failed to generate PDF: ">> \o Str(b.exc)))
    ELSE b

\* lines 70-103: what generate_pdf_from_html ends with, given what the
\* coroutine handed to wait_for ended with.
GeneratePdfFromHtml(inner) == GenerateExcept(SizeCheck(WaitFor(inner)))

\* ------------------------------------- PDFService.generate_pdf_from_resume
\* lines 127-129: every Exception of the body, HTTPException included, is
\* re-raised as PDFGenerationError.
GeneratePdfFromResume(o) ==
    IF ~o.ok /\ IsException(o.exc)
    THEN Raised(PDFGenerationError(<<"Failed to generate resume PDF: ">> \o Str(o.exc)))
    ELSE o

\* _render_resume_template lines 237-239: any failure of the rendering
\* (missing template file, a None substituted by str.replace, ...).
RenderError ==
    PDFGenerationError(<<"Failed to render template: ", "render diagnostic">>)

\* ------------------------------------------------- api/export.py handlers
GenerationFailed(e, sugg) ==
    HTTPException(500, "PDF_GENERATION_FAILED", Str(e), sugg, 0, 0)

InternalServerError ==
    HTTPException(500, "INTERNAL_SERVER_ERROR",
                  <<"An unexpected error occurred during PDF generation">>,
                  "Please try again or contact support if the issue persists",
                  0, 0)

MissingHtmlContent ==
    HTTPException(400, "MISSING_HTML_CONTENT", <<"HTML content is required">>,
                  "Please provide valid HTML content in the request body", 0, 0)

\* export_resume_pdf lines 22-62, given what the try body ended with.
ExportResumePdfResponse(o) ==
    IF o.ok THEN PdfResponse(o.size)
    ELSE IF o.exc.type = "PDFGenerationError"
         THEN ErrorResponse(GenerationFailed(o.exc,
                  "Please check your resume data and try again"))
    ELSE IF IsException(o.exc) THEN ErrorResponse(InternalServerError)
    ELSE UnhandledResponse

\* str.lower() on one character, for the letters a title is written in
\* here.  "OMEGA" and "omega" stand for the characters U+03A9 and U+03C9.
LowerChar(c) ==
    CASE c = "M" -> "m" [] c = "C" -> "c" [] c = "V" -> "v" [] c = "T" -> "t"
      [] c = "OMEGA" -> "omega"
      [] OTHER -> c

\* str.lower()
Lower(str) == [i \in DOMAIN str |-> LowerChar(str[i])]

\* str.replace(' ', '_')
ReplaceSpaces(str) == [i \in DOMAIN str |-> IF str[i] = " " THEN "_" ELSE str[i]]

\* ResumeFilename without the .lower() call.
ResumeFilenameAsTyped(title) ==
    ReplaceSpaces(title) \o <<"_", "r", "e", "s", "u", "m", "e", ".", "p", "d", "f">>

\* export.py line 30: f"{resume.title.replace(' ', '_').lower()}_resume.pdf"
ResumeFilename(title) ==
    Lower(ReplaceSpaces(title)) \o <<"_", "r", "e", "s", "u", "m", "e", ".", "p", "d", "f">>

\* export.py line 78: body.get("filename", "document.pdf") of a body
\* without filename.
DefaultFilename == <<"d", "o", "c", "u", "m", "e", "n", "t", ".", "p", "d", "f">>

\* Response(..., headers=...) encodes every header value as latin-1: the
\* characters here that latin-1 does not have.
EncodesAsLatin1(str) == \A i \in DOMAIN str : str[i] \notin {"OMEGA", "omega"}

\* export.py lines 29-41 and 53-62: the Response is built inside the try
\* block; a filename that cannot be encoded raises UnicodeEncodeError, which
\* `except Exception` answers with INTERNAL_SERVER_ERROR.
ExportResumePdfAttachment(title, o) ==
    LET resp == ExportResumePdfResponse(o)
    IN  IF resp.status # 200 THEN resp
        ELSE IF EncodesAsLatin1(ResumeFilename(title))
             THEN [resp EXCEPT !.filename = ResumeFilename(title)]
        ELSE ErrorResponse(InternalServerError)

\* ExportPdfFromHtmlResponse without the final `except Exception` clause.
ExportPdfFromHtmlNoCatchAll(o) ==
    IF o.ok THEN PdfResponse(o.size)
    ELSE IF o.exc.type = "HTTPException" THEN ErrorResponse(o.exc)
    ELSE IF o.exc.type = "PDFGenerationError"
         THEN ErrorResponse(GenerationFailed(o.exc,
                  "Please check your HTML content and try again"))
    ELSE UnhandledResponse

\* export_pdf_from_html lines 73-126, given what the try body ended with.
ExportPdfFromHtmlResponse(o) ==
    IF o.ok THEN PdfResponse(o.size)
    ELSE IF o.exc.type = "HTTPException" THEN ErrorResponse(o.exc)
    ELSE IF o.exc.type = "PDFGenerationError"
         THEN ErrorResponse(GenerationFailed(o.exc,
                  "Please check your HTML content and try again"))
    ELSE IF IsException(o.exc) THEN ErrorResponse(InternalServerError)
    ELSE UnhandledResponse

\* export.py lines 93-102, for a body without filename.
ExportPdfFromHtmlAttachment(o) ==
    LET resp == ExportPdfFromHtmlResponse(o)
    IN  IF resp.status # 200 THEN resp ELSE [resp EXCEPT !.filename = DefaultFilename]

\* HtmlMissing written as `if html_content is None`.
HtmlMissingNoneOnly(body) == ~body.hasHtml

\* line 80: `if not html_content` (None and "" are falsy).
HtmlMissing(body) == ~body.hasHtml \/ body.html = <<>>

\* ==================================================== template rendering
\* An HTML text is a sequence of atoms: a tag or comment ("<...>"), a
\* template token ("{{ ... }}", "{% ... %}"), a run of text without "<" or
\* ">", or one character of a caller's string.  White space between atoms is
\* left out.  Positions and lengths are counted in atoms, from 0 as in Python.
Tag(t) == [kind |-> "tag", text |-> t]
Tpl(t) == [kind |-> "tpl", text |-> t]
Text(t) == [kind |-> "text", text |-> t]
Ch(c) == [kind |-> "char", text |-> c]

\* A caller's string as atoms, character by character.
Chars(str) == [i \in DOMAIN str |-> Ch(str[i])]

\* The atom contains ">" (then it ends with it) / "<" (then it begins with it).
HasGt(a) == a.kind = "tag" \/ (a.kind = "char" /\ a.text = ">")
HasLt(a) == a.kind = "tag" \/ (a.kind = "char" /\ a.text = "<")

Max(a, b) == IF a >= b THEN a ELSE b
Min(a, b) == IF a <= b THEN a ELSE b

\* Python's handling of a slice or search bound n on a text of length len.
Clamp(n, len) == IF n < 0 THEN Max(0, len + n) ELSE Min(n, len)

\* html[a:b]
Slice(html, a, b) == SubSeq(html, Clamp(a, Len(html)) + 1, Clamp(b, Len(html)))
\* html[:b]
Upto(html, b) == Slice(html, 0, b)
\* html[a:]
From(html, a) == Slice(html, a, Len(html))

\* html.find(x, start) for x the atom a.
Find(html, a, start) ==
    LET hits == {i \in Clamp(start, Len(html))..(Len(html) - 1) : html[i + 1] = a}
    IN  IF hits = {} THEN -1 ELSE CHOOSE i \in hits : \A j \in hits : i <= j

\* html.find('>', start)
FindGt(html, start) ==
    LET hits == {i \in Clamp(start, Len(html))..(Len(html) - 1) : HasGt(html[i + 1])}
    IN  IF hits = {} THEN -1 ELSE CHOOSE i \in hits : \A j \in hits : i <= j

\* html.rfind('<', start, end)
RFindLt(html, start, end) ==
    LET hits == {i \in Clamp(start, Len(html))..(Clamp(end, Len(html)) - 1) :
                    HasLt(html[i + 1])}
    IN  IF hits = {} THEN -1 ELSE CHOOSE i \in hits : \A j \in hits : i >= j

\* html.replace(a, new): every occurrence of the atom a.
RECURSIVE Replace(_, _, _)
Replace(html, a, new) ==
    IF html = <<>> THEN <<>>
    ELSE (IF Head(html) = a THEN new ELSE <<Head(html)>>) \o Replace(Tail(html), a, new)

\* Concatenation of a sequence of texts: ''.join(parts).
RECURSIVE Join(_)
Join(parts) == IF parts = <<>> THEN <<>> ELSE Head(parts) \o Join(Tail(parts))

\* templates/resume_template.html: a heading with the title, then the
\* Summary, Experience and Skills sections, the last two inside
\* {% if %}...{% endif %} with their repeatable blocks.
Template ==
    << Tag("<!DOCTYPE html>"), Tag("<html>"), Tag("<body>"),
       Tag("<h1>"), Tpl("{{ title }}"), Tag("</h1>"),
       Tag("<!-- Summary -->"),
       Tag("<section>"), Tag("<h2>"), Text("Summary"), Tag("</h2>"),
       Tag("<p>"), Tpl("{{ summary }}"), Tag("</p>"), Tag("</section>"),
       Tag("<!-- /Summary -->"),
       Tpl("{% if experience %}"),
       Tag("<section>"), Tag("<h2>"), Text("Experience"), Tag("</h2>"),
       Tpl("{% for exp in experience %}"),
       Tag("<div>"), Tpl("{{ exp.role }}"), Tpl("{{ exp.organization }}"),
       Tpl("{{ exp.location }}"), Tpl("{{ exp.startDate }}"),
       Tpl("{{ exp.endDate or 'Present' }}"),
       Tag("<ul>"), Tpl("{% for bullet in exp.bullets %}"),
       Tag("<li>"), Tpl("{{ bullet }}"), Tag("</li>"),
       Tpl("{% endfor %}"), Tag("</ul>"), Tag("</div>"),
       Tpl("{% endfor %}"),
       Tag("</section>"),
       Tpl("{% endif %}"),
       Tpl("{% if skills %}"),
       Tag("<section>"), Tag("<h2>"), Text("Skills"), Tag("</h2>"),
       Tpl("{% for skill in skills %}"),
       Tag("<span>"), Tpl("{{ skill }}"), Tag("</span>"),
       Tpl("{% endfor %}"),
       Tag("</section>"),
       Tpl("{% endif %}"),
       Tag("</body>"), Tag("</html>") >>

\* Python's None as the value of an optional field.
None == "None"

\* exp.get('bullets'): the list under the key 'bullets', nothing when the
\* entry keeps its list under another key.
ExpBullets(exp) == IF exp.listKey = "bullets" THEN exp.items ELSE <<>>

\* _render_experience_section lines 248-253.
BulletsHtml(exp) ==
    IF ExpBullets(exp) = <<>> THEN <<>>
    ELSE <<Tag("<ul class='experience-bullets'>")>>
         \o Join([i \in DOMAIN ExpBullets(exp) |->
                    <<Tag("<li>"), Text(ExpBullets(exp)[i]), Tag("</li>")>>])
         \o <<Tag("</ul>")>>

\* _render_experience_section lines 245-269: the block of one entry.
ExpHtml(exp) ==
    << Tag("<div class=\"experience-item\">"), Tag("<div class=\"experience-header\">"),
       Tag("<div>"),
       Tag("<div class=\"experience-role\">"), Text(exp.role), Tag("</div>"),
       Tag("<div class=\"experience-organization\">"), Text(exp.organization),
       Tag("</div>") >>
    \o (IF exp.location # None
        THEN <<Tag("<div class=\"experience-location\">"), Text(exp.location), Tag("</div>")>>
        ELSE <<>>)
    \o << Tag("</div>"),
          Tag("<div class=\"experience-dates\">"), Text(exp.startDate), Text("-"),
          Text(IF exp.endDate # None THEN exp.endDate ELSE "Present"),
          Tag("</div>"), Tag("</div>") >>
    \o BulletsHtml(exp)
    \o <<Tag("</div>")>>

\* _render_experience_section lines 241-272.
RenderExperienceSection(experience_data) ==
    Join([i \in DOMAIN experience_data |-> ExpHtml(experience_data[i])])

\* _render_skills_section line 285: one item per skill of the group.
SkillItems(skills_list) ==
    Join([i \in DOMAIN skills_list |->
            <<Tag("<span class=\"skill-item\">"), Text(skills_list[i]), Tag("</span>")>>])

\* _render_skills_section lines 281-296: one element of the skills list, a
\* group {name, skills} or, in the old format, a string.
SubsectionHtml(subsection) ==
    IF subsection.isDict
    THEN IF subsection.skills # <<>>
         THEN << Tag("<div class=\"skill-subsection\">"),
                 Tag("<div class=\"skill-subsection-title\">"), Text(subsection.name),
                 Tag("</div>"),
                 Tag("<div class=\"skill-list\">") >>
              \o SkillItems(subsection.skills)
              \o <<Tag("</div>"), Tag("</div>")>>
         ELSE <<>>
    ELSE <<Tag("<span class=\"skill-item\">"), Text(subsection.text), Tag("</span>")>>

\* RenderSkillsSection that renders the first element of the list only.
RenderSkillsSectionFirstOnly(skills_data) ==
    IF skills_data = <<>> THEN <<>>
    ELSE <<Tag("<div class=\"skills-container\">")>>
         \o SubsectionHtml(skills_data[1])
         \o <<Tag("</div>")>>

\* _render_skills_section lines 274-298.
RenderSkillsSection(skills_data) ==
    IF skills_data = <<>> THEN <<>>
    ELSE <<Tag("<div class=\"skills-container\">")>>
         \o Join([i \in DOMAIN skills_data |-> SubsectionHtml(skills_data[i])])
         \o <<Tag("</div>")>>

\* _remove_template_section lines 300-312: only 'summary' is handled.
RemoveTemplateSection(html_content, section_name) ==
    IF section_name = "summary"
    THEN LET start_idx == Find(html_content, Tag("<!-- Summary -->"), 0)
             end_idx == Find(html_content, Tag("<!-- /Summary -->"), 0)
         IN  IF start_idx # -1 /\ end_idx # -1
             THEN Upto(html_content, start_idx) \o From(html_content, end_idx + 1)
             ELSE html_content
    ELSE html_content

\* _render_resume_template lines 194-206.  experience_html is computed and
\* not used; the replacements of a placeholder by itself change nothing.
ExperienceBranch(html_content) ==
    LET h1 == Replace(html_content, Tpl("{% if experience %}"), <<>>)
        h2 == Replace(h1, Tpl("{% endif %}"), <<>>)
        h3 == Replace(h2, Tpl("{% for exp in experience %}"), <<>>)
        h4 == Replace(h3, Tpl("{% endfor %}"), <<>>)
        h5 == Replace(h4, Tpl("{% for bullet in exp.bullets %}"), <<>>)
    IN  Replace(h5, Tpl("{% endfor %}"), <<>>)

\* _render_resume_template lines 213-226.  len('{% endif %}') is one atom.
SkillsBranch(html_content, skills_html) ==
    LET skills_section_start == Find(html_content, Tpl("{% if skills %}"), 0)
        skills_section_end ==
            Find(html_content, Tpl("{% endif %}"), skills_section_start) + 1
        content_start == FindGt(html_content, skills_section_start) + 1
        content_end == RFindLt(html_content, skills_section_start, skills_section_end)
    IN  IF skills_section_start # -1 /\ skills_section_end # -1
        THEN IF content_start # -1 /\ content_end # -1
             THEN Upto(html_content, content_start) \o skills_html
                  \o From(html_content, content_end)
             ELSE Upto(html_content, skills_section_start)
                  \o << Tag("<section class=\"resume-section\">"),
                        Tag("<h2 class=\"section-title\">"), Text("Technical Skills"),
                        Tag("</h2>") >>
                  \o skills_html \o <<Tag("</section>")>>
                  \o From(html_content, skills_section_end)
        ELSE html_content

\* The value of resume_data[key] is None.
IsNone(resume_data, key) == key \in resume_data.keys /\ key \in resume_data.nulls

\* resume_data.get(key, '') for the keys 'title' and 'summary', whose value
\* is not None: str.replace raises TypeError for a None argument (lines
\* 189-190), which ends the call at lines 237-239.
Get(resume_data, key) ==
    IF key \notin resume_data.keys THEN <<>>
    ELSE IF key = "title" THEN resume_data.title
    ELSE resume_data.summary

\* What a call of _render_resume_template ends with: the HTML, or the
\* PDFGenerationError of lines 237-239.
RenderOk(html) == [ok |-> TRUE, html |-> html]
RenderFailed == [ok |-> FALSE, html |-> <<>>]

\* _render_resume_template lines 171-239, for the template file `file` as it
\* is on disk when the call is made.
RenderResumeTemplate(file, resume_data) ==
    IF ~file.exists THEN RenderFailed
    ELSE IF IsNone(resume_data, "title") \/ IsNone(resume_data, "summary")
    THEN RenderFailed
    ELSE
    LET h1 == Replace(file.content, Tpl("{{ title }}"), Chars(Get(resume_data, "title")))
        h2 == Replace(h1, Tpl("{{ summary }}"), Chars(Get(resume_data, "summary")))
        h3 == IF "experience" \in resume_data.keys /\ resume_data.experience # <<>>
              THEN ExperienceBranch(h2)
              ELSE RemoveTemplateSection(h2, "experience")
        h4 == IF "skills" \in resume_data.keys /\ resume_data.skills # <<>>
              THEN SkillsBranch(h3, RenderSkillsSection(resume_data.skills))
              ELSE RemoveTemplateSection(h3, "skills")
    IN  RenderOk(IF Get(resume_data, "summary") = <<>>
                 THEN RemoveTemplateSection(h4, "summary")
                 ELSE h4)

\* ------------------------------------------------ resumes and template files
\* An experience entry as model_dump() hands it over (the list under
\* 'achievements') and one as the tests build it (the list under 'bullets').
Entry1 ==
    [role |-> "Engineer", organization |-> "TechCorp Inc.", location |-> None,
     startDate |-> "2020-01", endDate |-> None,
     listKey |-> "achievements", items |-> <<"Built X", "Led Y">>]
Entry2 ==
    [role |-> "Intern", organization |-> "StartupXYZ", location |-> "Remote",
     startDate |-> "2018-06", endDate |-> "2019-12",
     listKey |-> "bullets", items |-> <<"Shipped Z">>]

Experiences == {<<>>, <<Entry1>>, <<Entry2, Entry1>>}

\* A skills group {name, skills} and a skill of the old string format.
SkillGroup(name, skills) == [isDict |-> TRUE, name |-> name, skills |-> skills, text |-> ""]
SkillString(text) == [isDict |-> FALSE, name |-> "", skills |-> <<>>, text |-> text]

SkillGroups ==
    <<SkillGroup("Languages", <<"Python", "Go">>), SkillGroup("Tools", <<"Git">>)>>

SkillLists == {<<>>, SkillGroups, <<SkillString("Python")>>}

Titles == {<<"T">>, <<"<", "&", ">">>}
Summaries == {<<>>, <<"S", "<">>}

\* A resume_data dictionary with every key.
ResumeOf(t, sm, e, k) ==
    [keys |-> {"title", "summary", "experience", "skills"}, nulls |-> {},
     title |-> t, summary |-> sm, experience |-> e, skills |-> k]

\* Resumes without experience and skills whose summary is "", absent or
\* None.
SummaryLess ==
    {ResumeOf(<<"T">>, <<>>, <<>>, <<>>),
     [ResumeOf(<<"T">>, <<>>, <<>>, <<>>) EXCEPT !.keys = @ \ {"summary"}],
     [ResumeOf(<<"T">>, <<>>, <<>>, <<>>) EXCEPT !.nulls = {"summary"}]}

\* resume_data dictionaries handed to _render_resume_template: every title
\* and summary, every experience and skills list, and a dictionary without
\* the keys 'experience' and 'skills'.
ResumeData ==
    {ResumeOf(t, sm, <<Entry1>>, SkillGroups) : t \in Titles, sm \in Summaries}
    \cup {ResumeOf(<<"T">>, <<"S", "<">>, e, k) : e \in Experiences, k \in SkillLists}
    \cup {[keys |-> {"title", "summary"}, nulls |-> {}, title |-> <<"T">>,
           summary |-> <<"S", "<">>, experience |-> <<>>, skills |-> <<>>]}
    \cup SummaryLess

\* The file at template_path: missing, as installed, or edited since.
NoFile == [exists |-> FALSE, content |-> <<>>]
InstalledFile == [exists |-> TRUE, content |-> Template]
EditedFile ==
    [exists |-> TRUE, content |-> Replace(Template, Text("Summary"), <<Text("Profile")>>)]
TemplateFiles == {NoFile, InstalledFile, EditedFile}

\* A call of _render_resume_template and what it ended with.
NoCall == [called |-> FALSE, resume |-> CHOOSE d \in ResumeData : TRUE,
           found |-> FALSE, ok |-> FALSE, html |-> <<>>]
\* found: the template file was there when the call was made.
Call(file, resume_data) ==
    LET result == RenderResumeTemplate(file, resume_data)
    IN  [called |-> TRUE, resume |-> resume_data, found |-> file.exists,
         ok |-> result.ok, html |-> result.html]

\* ================================================================ state
VARIABLES
    pc,          \* per request: the await the task is suspended at
    req,         \* per request: what the caller sent
    driver,      \* per request: the Playwright driver of `async with`
    browser,     \* per request: the browser started by chromium.launch
    cancelledAt, \* per request: the await wait_for cancelled, "" if none
    renderResult,\* per request: how the engine calls of lines 137-166 ended
    closeRaised, \* per request: browser.close() raised
    response,    \* per request: the HTTP response sent
    rendered,    \* per request: _render_resume_template was called
    tfile,       \* the file at PDFService.template_path
    serving,     \* pdf_service exists and the process serves requests
    cur,         \* the latest call of _render_resume_template
    prev,        \* the call before it
    versions,    \* the rows of table resume_versions, by id
    activation,  \* the latest call of set_active_resume_version
    migrations,  \* the tracking table `migrations`
    command      \* the latest command of the migration CLI

pipelineVars ==
    <<pc, req, driver, browser, cancelledAt, renderResult, closeRaised, response,
      rendered>>

renderVars == <<tfile, serving, cur, prev>>

dbVars == <<versions, activation, migrations, command>>

vars == <<pipelineVars, renderVars, dbVars>>

\* ------------------------------------------------------------ the database
\* Values of resume_versions.id (uuid4 strings) and of user_id.
VersionIds == {"v1", "v2", "v3"}

UserIds == {"u1", "u2"}

\* No row of resume_versions has this id.
NoVersion == [exists |-> FALSE, user_id |-> "", is_active |-> FALSE]

\* set_active_resume_version has not been called.
NoActivation ==
    [called |-> FALSE, version_id |-> "", user_id |-> "", returned |-> FALSE,
     before |-> [v \in VersionIds |-> NoVersion],
     after |-> [v \in VersionIds |-> NoVersion]]

\* The names of the *.sql files of the migrations directory, sorted.
MigrationFiles == <<"001.sql", "002.sql", "003.sql">>

\* No command of the migration CLI has run.
NoCommand ==
    [name |-> "", steps |-> 0, raised |-> FALSE, returned |-> FALSE,
     before |-> <<>>, after |-> <<>>]

\* An empty database file on which no MigrationManager was constructed.
DbIdle ==
    /\ versions = [v \in VersionIds |-> NoVersion]
    /\ activation = NoActivation
    /\ migrations = [exists |-> FALSE, rows |-> <<>>]
    /\ command = NoCommand

\* Awaits inside the try block of _generate_pdf_with_playwright.
TrySteps == {"new_page", "set_viewport_size", "set_content", "wait_for_load_state", "pdf"}

\* Awaits at which the coroutine handed to wait_for can be suspended.
InFlight == {"start", "launch", "close"} \cup TrySteps

\* What a caller sent.  options: the keys of theme_options; hasTitle and
\* title: the `title` of a resume.
NoRequest ==
    [endpoint |-> "", bodyOk |-> FALSE, hasHtml |-> FALSE, html |-> <<>>,
     options |-> {}, hasTitle |-> FALSE, title |-> <<>>]

HtmlBody(ok, has, h, opts) ==
    [NoRequest EXCEPT !.endpoint = "pdf-from-html", !.bodyOk = ok, !.hasHtml = has,
                      !.html = h, !.options = opts]

\* JSON bodies of POST /export/pdf-from-html without theme_options:
\* undecodable, without html_content, or with one of HtmlValues.
HtmlBodies ==
    {HtmlBody(FALSE, FALSE, <<>>, {}), HtmlBody(TRUE, FALSE, <<>>, {})}
    \cup {HtmlBody(TRUE, TRUE, h, {}) : h \in HtmlValues}

\* theme_options a caller may send: none, or a key Page.pdf() does not know.
ThemeOptions == {{}, {"theme"}}

\* JSON bodies of POST /export/pdf-from-html carrying markup and
\* theme_options.
ThemedBodies ==
    {HtmlBody(TRUE, TRUE, <<"<", "p", ">">>, opts) : opts \in ThemeOptions}

\* The `title` a posted resume may carry: none, "", "T".
ResumeBody(hasT, t, has, h) ==
    [NoRequest EXCEPT !.endpoint = "pdf", !.bodyOk = TRUE, !.hasHtml = has,
                      !.html = h, !.hasTitle = hasT, !.title = t]

\* Resumes posted to /export/pdf.  Those with a title are told apart by what
\* _render_resume_template makes of them: it raises (hasHtml FALSE) or
\* returns the HTML string html.
ResumeBodies ==
    {ResumeBody(FALSE, <<>>, FALSE, <<>>), ResumeBody(TRUE, <<>>, FALSE, <<>>),
     ResumeBody(TRUE, <<"T">>, FALSE, <<>>)}
    \cup {ResumeBody(TRUE, <<"T">>, TRUE, h) : h \in HtmlValues}

\* Resumes posted to /export/pdf that render to markup, under other titles:
\* one with upper case and a space, one outside latin-1.
TitledBodies ==
    {ResumeBody(TRUE, t, TRUE, <<"<", "p", ">">>) :
        t \in {<<"M", "y", " ", "C", "V">>, <<"OMEGA">>}}

\* ResumeValid of a Resume model whose title is Optional and unconstrained.
ResumeValidAnyTitle(body) == TRUE

\* models/resume.py: `title: str = Field(..., min_length=1, max_length=100)`,
\* checked by FastAPI against the declared parameter `resume: Resume`.
ResumeValid(body) ==
    body.hasTitle /\ Len(body.title) >= 1 /\ Len(body.title) <= 100

\* No request has arrived.
PipelineIdle ==
    /\ pc = [r \in Requests |-> "idle"]
    /\ req = [r \in Requests |-> NoRequest]
    /\ driver = [r \in Requests |-> "none"]
    /\ browser = [r \in Requests |-> "none"]
    /\ cancelledAt = [r \in Requests |-> ""]
    /\ renderResult = [r \in Requests |-> NoResult]
    /\ closeRaised = [r \in Requests |-> FALSE]
    /\ response = [r \in Requests |-> NoResponse]
    /\ rendered = [r \in Requests |-> FALSE]

\* The process is up with the template installed.
Init ==
    /\ PipelineIdle
    /\ DbIdle
    /\ tfile = InstalledFile
    /\ serving = TRUE
    /\ cur = NoCall
    /\ prev = NoCall

\* PlaywrightExit for a driver started without the `async with` and never
\* stopped: a browser that close() did not bring down stays up.
PlaywrightExitLeaky(b) == b

\* line 137, leaving `async with async_playwright()`: the driver is stopped
\* and a browser it still runs goes down with it.
PlaywrightExit(b) == IF b = "live" THEN "killed" ELSE b

\* The response of request r once generate_pdf_from_html has ended with o.
Respond(r, o) ==
    IF req[r].endpoint = "pdf"
    THEN ExportResumePdfAttachment(req[r].title, GeneratePdfFromResume(o))
    ELSE ExportPdfFromHtmlAttachment(o)

\* The coroutine handed to wait_for ended with `inner`: the rest of the
\* request runs without suspending, up to the response.
Finish(r, inner) ==
    /\ response' = [response EXCEPT ![r] = Respond(r, GeneratePdfFromHtml(inner))]
    /\ pc' = [pc EXCEPT ![r] = "done"]

\* The request ended before any engine call.
Reject(r, body, o) ==
    /\ req' = [req EXCEPT ![r] = body]
    /\ response' = [response EXCEPT ![r] =
            IF body.endpoint = "pdf"
            THEN ExportResumePdfResponse(GeneratePdfFromResume(o))
            ELSE ExportPdfFromHtmlResponse(o)]
    /\ pc' = [pc EXCEPT ![r] = "done"]
    /\ UNCHANGED <<driver, browser, cancelledAt, renderResult, closeRaised>>

\* export.py line 15: the body failed the validation of `resume: Resume`;
\* export_resume_pdf is not called.
RejectUnprocessable(r, body) ==
    /\ req' = [req EXCEPT ![r] = body]
    /\ response' = [response EXCEPT ![r] =
            ValidationErrorResponse(
                IF body.hasTitle THEN <<"String should have at least 1 character">>
                ELSE <<"Field required">>)]
    /\ pc' = [pc EXCEPT ![r] = "done"]
    /\ UNCHANGED <<driver, browser, cancelledAt, renderResult, closeRaised>>

\* generate_pdf_from_html lines 48-75 is entered with body.html.
Enter(r, body) ==
    IF HtmlIsBlank(body.html)
    THEN Reject(r, body, Raised(EmptyHtmlError))
    ELSE /\ req' = [req EXCEPT ![r] = body]
         /\ pc' = [pc EXCEPT ![r] = "start"]
         /\ UNCHANGED <<driver, browser, cancelledAt, renderResult, closeRaised, response>>

\* export.py lines 73-91 for one of `bodies`.
ExportPdfFromHtmlOf(r, bodies) ==
    /\ pc[r] = "idle"
    /\ \E body \in bodies :
          IF ~body.bodyOk THEN Reject(r, body, Raised(JSONDecodeError))
          ELSE IF HtmlMissing(body) THEN Reject(r, body, Raised(MissingHtmlContent))
          ELSE Enter(r, body)
    /\ UNCHANGED <<rendered, renderVars, dbVars>>

\* POST /export/pdf-from-html without theme_options.
ExportPdfFromHtml(r) == ExportPdfFromHtmlOf(r, HtmlBodies)

\* POST /export/pdf-from-html with markup and theme_options.
ExportThemedPdfFromHtml(r) == ExportPdfFromHtmlOf(r, ThemedBodies)

\* ExportResumePdfOf that hands the resume to the engine without waiting for
\* _render_resume_template to return.
ExportResumePdfOfUnordered(r, bodies) ==
    /\ pc[r] = "idle"
    /\ \E body \in bodies :
          /\ rendered' = [rendered EXCEPT ![r] = ResumeValid(body)]
          /\ IF ~ResumeValid(body) THEN RejectUnprocessable(r, body)
             ELSE /\ req' = [req EXCEPT ![r] = body]
                  /\ pc' = [pc EXCEPT ![r] = "start"]
                  /\ UNCHANGED <<driver, browser, cancelledAt, renderResult,
                                 closeRaised, response>>
    /\ UNCHANGED <<renderVars, dbVars>>

\* export.py lines 14-27 and generate_pdf_from_resume lines 120-125, for
\* one of `bodies`.
ExportResumePdfOf(r, bodies) ==
    /\ pc[r] = "idle"
    /\ \E body \in bodies :
          /\ rendered' = [rendered EXCEPT ![r] = ResumeValid(body)]
          /\ IF ~ResumeValid(body) THEN RejectUnprocessable(r, body)
             ELSE IF ~body.hasHtml THEN Reject(r, body, Raised(RenderError))
             ELSE Enter(r, body)
    /\ UNCHANGED <<renderVars, dbVars>>

\* POST /export/pdf.
ExportResumePdf(r) == ExportResumePdfOf(r, ResumeBodies)

\* POST /export/pdf with a resume of TitledBodies.
ExportTitledResumePdf(r) == ExportResumePdfOf(r, TitledBodies)

\* line 137: entering `async with async_playwright() as p`.
StartPlaywright(r) ==
    /\ pc[r] = "start"
    /\ \/ /\ driver' = [driver EXCEPT ![r] = "running"]
          /\ pc' = [pc EXCEPT ![r] = "launch"]
          /\ UNCHANGED <<response, renderResult>>
       \/ /\ renderResult' = [renderResult EXCEPT ![r] =
                                Raised(EngineError("playwright start failed"))]
          /\ Finish(r, renderResult'[r])
          /\ UNCHANGED driver
    /\ UNCHANGED <<req, browser, cancelledAt, closeRaised, rendered, renderVars, dbVars>>

\* lines 139-148: p.chromium.launch(...), outside the try block.  A launch
\* that raises may or may not have started the browser process.
Launch(r) ==
    /\ pc[r] = "launch"
    /\ \/ /\ browser' = [browser EXCEPT ![r] = "live"]
          /\ pc' = [pc EXCEPT ![r] = "new_page"]
          /\ UNCHANGED <<driver, response, renderResult>>
       \/ /\ \E started \in BOOLEAN :
                browser' = [browser EXCEPT ![r] =
                              PlaywrightExit(IF started THEN "live" ELSE "none")]
          /\ driver' = [driver EXCEPT ![r] = "stopped"]
          /\ renderResult' = [renderResult EXCEPT ![r] =
                                Raised(EngineError("launch failed"))]
          /\ Finish(r, renderResult'[r])
    /\ UNCHANGED <<req, cancelledAt, closeRaised, rendered, renderVars, dbVars>>

\* One await of the try block: it returns and the task moves on to `next`,
\* or it raises and the finally clause is entered.
TryStep(r, at, next, diag) ==
    /\ pc[r] = at
    /\ \/ /\ pc' = [pc EXCEPT ![r] = next]
          /\ UNCHANGED renderResult
       \/ /\ renderResult' = [renderResult EXCEPT ![r] = Raised(EngineError(diag))]
          /\ pc' = [pc EXCEPT ![r] = "close"]
    /\ UNCHANGED <<req, driver, browser, cancelledAt, closeRaised, response, rendered, renderVars, dbVars>>

\* line 152
NewPage(r) == TryStep(r, "new_page", "set_viewport_size", "new_page failed")
\* line 155
SetViewportSize(r) == TryStep(r, "set_viewport_size", "set_content", "set_viewport_size failed")
\* line 158
SetContent(r) == TryStep(r, "set_content", "wait_for_load_state", "set_content failed")
\* line 161
WaitForLoadState(r) == TryStep(r, "wait_for_load_state", "pdf", "wait_for_load_state failed")

\* lines 164-166: page.pdf(**pdf_options) and `return pdf_bytes`.
Pdf(r) ==
    /\ pc[r] = "pdf"
    /\ IF PdfCall(PdfOptions(req[r].options)) # Raised(NoExc)
       THEN renderResult' = [renderResult EXCEPT ![r] =
                                PdfCall(PdfOptions(req[r].options))]
       ELSE \/ \E n \in PdfSizes :
                 renderResult' = [renderResult EXCEPT ![r] = Returned(n)]
            \/ renderResult' = [renderResult EXCEPT ![r] =
                                  Raised(EngineError("pdf failed"))]
    /\ pc' = [pc EXCEPT ![r] = "close"]
    /\ UNCHANGED <<req, driver, browser, cancelledAt, closeRaised, response, rendered, renderVars, dbVars>>

\* Close for one browser shared by the requests: closing it takes it away
\* from every request that has it.
CloseShared(r) ==
    /\ pc[r] = "close"
    /\ browser' = [q \in Requests |->
                     IF browser[q] = "live" THEN "closed" ELSE browser[q]]
    /\ Finish(r, renderResult[r])
    /\ driver' = [driver EXCEPT ![r] = "stopped"]
    /\ UNCHANGED <<req, cancelledAt, renderResult, closeRaised, rendered, renderVars, dbVars>>

\* lines 168-169: `finally: await browser.close()`, then the `async with`
\* is left.  An exception of close() replaces what the try block ended
\* with; the browser may or may not have gone down by then.
Close(r) ==
    /\ pc[r] = "close"
    /\ \/ /\ browser' = [browser EXCEPT ![r] = PlaywrightExit("closed")]
          /\ Finish(r, renderResult[r])
          /\ UNCHANGED closeRaised
       \/ /\ \E down \in BOOLEAN :
                browser' = [browser EXCEPT ![r] =
                              PlaywrightExit(IF down THEN "closed" ELSE "live")]
          /\ closeRaised' = [closeRaised EXCEPT ![r] = TRUE]
          /\ Finish(r, Raised(EngineError("close failed")))
    /\ driver' = [driver EXCEPT ![r] = "stopped"]
    /\ UNCHANGED <<req, cancelledAt, renderResult, rendered, renderVars, dbVars>>

\* DeadlineExpires for a deadline that answers the caller without
\* cancelling the coroutine (asyncio.wait in place of asyncio.wait_for):
\* the coroutine is abandoned where it is suspended.
DeadlineExpiresAbandon(r) ==
    /\ pc[r] \in InFlight
    /\ cancelledAt[r] = ""
    /\ cancelledAt' = [cancelledAt EXCEPT ![r] = pc[r]]
    /\ Finish(r, Raised(CancelledError))
    /\ UNCHANGED <<req, driver, browser, renderResult, closeRaised, rendered, renderVars, dbVars>>

\* line 72-75: max_generation_time expires while the coroutine is suspended
\* at pc[r]; wait_for cancels it once and waits for it to end.  The
\* CancelledError is raised at that await: inside the try block the finally
\* clause runs next, elsewhere the coroutine ends at once.
DeadlineExpires(r) ==
    /\ pc[r] \in InFlight
    /\ cancelledAt[r] = ""
    /\ cancelledAt' = [cancelledAt EXCEPT ![r] = pc[r]]
    /\ IF pc[r] \in TrySteps
       THEN /\ renderResult' = [renderResult EXCEPT ![r] = Raised(CancelledError)]
            /\ pc' = [pc EXCEPT ![r] = "close"]
            /\ UNCHANGED <<driver, browser, response>>
       ELSE /\ \E up \in BOOLEAN :
                 browser' = [browser EXCEPT ![r] =
                     IF pc[r] = "start" THEN @
                     ELSE IF pc[r] = "launch"
                          THEN PlaywrightExit(IF up THEN "live" ELSE "none")
                     ELSE PlaywrightExit(IF up THEN "live" ELSE "closed")]
            /\ driver' = [driver EXCEPT ![r] = IF pc[r] = "start" THEN @ ELSE "stopped"]
            /\ Finish(r, Raised(CancelledError))
            /\ UNCHANGED renderResult
    /\ UNCHANGED <<req, closeRaised, rendered, renderVars, dbVars>>

Next ==
    \E r \in Requests :
        \/ ExportPdfFromHtml(r)
        \/ ExportResumePdf(r)
        \/ StartPlaywright(r)
        \/ Launch(r)
        \/ NewPage(r)
        \/ SetViewportSize(r)
        \/ SetContent(r)
        \/ WaitForLoadState(r)
        \/ Pdf(r)
        \/ Close(r)
        \/ DeadlineExpires(r)

Spec == Init /\ [][Next]_vars

\* The pipeline under requests to /export/pdf-from-html that carry markup
\* and theme_options.
NextThemed ==
    \E r \in Requests :
        \/ ExportThemedPdfFromHtml(r)
        \/ StartPlaywright(r)
        \/ Launch(r)
        \/ NewPage(r)
        \/ SetViewportSize(r)
        \/ SetContent(r)
        \/ WaitForLoadState(r)
        \/ Pdf(r)
        \/ Close(r)
        \/ DeadlineExpires(r)

SpecThemed == Init /\ [][NextThemed]_vars

\* The pipeline under requests to /export/pdf with the resumes of
\* TitledBodies.
NextTitled ==
    \E r \in Requests :
        \/ ExportTitledResumePdf(r)
        \/ StartPlaywright(r)
        \/ Launch(r)
        \/ NewPage(r)
        \/ SetViewportSize(r)
        \/ SetContent(r)
        \/ WaitForLoadState(r)
        \/ Pdf(r)
        \/ Close(r)
        \/ DeadlineExpires(r)

SpecTitled == Init /\ [][NextTitled]_vars

\* ------------------------------------------- the renderer and its template
\* The process has not started; some file, or none, is at template_path.
InitRender ==
    /\ PipelineIdle
    /\ DbIdle
    /\ tfile \in TemplateFiles
    /\ serving = FALSE
    /\ cur = NoCall
    /\ prev = NoCall

\* lines 314-315 and 24-27: `pdf_service = PDFService()` at import; __init__
\* stores template_path and looks at no file.
Startup ==
    /\ ~serving
    /\ serving' = TRUE
    /\ UNCHANGED <<tfile, cur, prev, pipelineVars, dbVars>>

\* The file at template_path is edited, replaced or deleted from outside.
TemplateChange ==
    /\ tfile' \in TemplateFiles \ {tfile}
    /\ UNCHANGED <<serving, cur, prev, pipelineVars, dbVars>>

\* One call of _render_resume_template, lines 171-239.
RenderCall ==
    /\ serving
    /\ \E resume_data \in ResumeData :
          cur' = Call(tfile, resume_data)
    /\ prev' = cur
    /\ UNCHANGED <<tfile, serving, pipelineVars, dbVars>>

NextRender == Startup \/ TemplateChange \/ RenderCall

SpecRender == InitRender /\ [][NextRender]_vars

\* The event loop runs the timer of asyncio.wait_for: a deadline that can
\* expire does expire.  Nothing obliges the engine to answer a call.
FairSpec == Init /\ [][Next]_vars /\ \A r \in Requests : WF_vars(DeadlineExpires(r))

\* ------------------------------------- resume versions and migrations
\* The ids of the rows of user_id whose is_active is set, in table t.
ActiveVersions(t, user_id) ==
    {v \in VersionIds : t[v].exists /\ t[v].user_id = user_id /\ t[v].is_active}

\* database.py lines 236-259: a row with a new uuid is inserted for user_id,
\* is_active False whatever the caller sent.
CreateResumeVersion ==
    /\ \E version_id \in VersionIds, user_id \in UserIds :
          /\ ~versions[version_id].exists
          /\ versions' = [versions EXCEPT ![version_id] =
                 [exists |-> TRUE, user_id |-> user_id, is_active |-> FALSE]]
    /\ UNCHANGED <<activation, migrations, command, pipelineVars, renderVars>>

\* database.py lines 286-330: UPDATE ... WHERE id = ?; is_active is among the
\* SET fields when update_data.is_active is not None.  No other row is touched
\* and no user is looked at.
UpdateResumeVersion ==
    /\ \E version_id \in VersionIds, given \in BOOLEAN, is_active \in BOOLEAN :
          versions' =
              IF versions[version_id].exists /\ given
              THEN [versions EXCEPT ![version_id].is_active = is_active]
              ELSE versions
    /\ UNCHANGED <<activation, migrations, command, pipelineVars, renderVars>>

\* database.py lines 332-338: DELETE ... WHERE id = ?.
DeleteResumeVersion ==
    /\ \E version_id \in VersionIds :
          /\ versions[version_id].exists
          /\ versions' = [versions EXCEPT ![version_id] = NoVersion]
    /\ UNCHANGED <<activation, migrations, command, pipelineVars, renderVars>>

\* database.py lines 340-352: the first UPDATE clears is_active on every row of
\* user_id, the second sets it on the row with this id and this user_id, both
\* are committed, and the row count of the second UPDATE is the result.
SetActiveResumeVersion ==
    /\ \E version_id \in VersionIds, user_id \in UserIds :
          LET deactivated ==
                  [v \in VersionIds |->
                      IF versions[v].exists /\ versions[v].user_id = user_id
                      THEN [versions[v] EXCEPT !.is_active = FALSE]
                      ELSE versions[v]]
              matches ==
                  deactivated[version_id].exists
                  /\ deactivated[version_id].user_id = user_id
              activated ==
                  IF matches
                  THEN [deactivated EXCEPT ![version_id].is_active = TRUE]
                  ELSE deactivated
          IN  /\ versions' = activated
              /\ activation' =
                    [called |-> TRUE, version_id |-> version_id,
                     user_id |-> user_id, returned |-> matches,
                     before |-> versions, after |-> activated]
    /\ UNCHANGED <<migrations, command, pipelineVars, renderVars>>

\* migrate.py lines 56-62, the SELECT MAX(batch): the highest batch of the
\* tracking rows, 0 when there is none.
MaxBatch(rows) ==
    IF rows = <<>> THEN 0
    ELSE CHOOSE b \in {rows[i].batch : i \in DOMAIN rows} :
             \A i \in DOMAIN rows : rows[i].batch <= b

\* migrate.py lines 64-90, the script ran: the row is inserted with the batch
\* get_next_batch returns at that moment.
ExecuteMigration(rows, file) ==
    Append(rows, [migration |-> file, batch |-> MaxBatch(rows) + 1])

\* migrate.py lines 18-35: MigrationManager() creates the tracking table when
\* the database has none.
InitMigrationsTable(m) == [exists |-> TRUE, rows |-> m.rows]

\* migrate.py lines 92-123, the ways migrate() can end on tracking table m:
\* the SELECT of get_executed_migrations raises when the table is missing;
\* otherwise the pending files run in order until one fails.
MigrateOutcomes(m) ==
    IF ~m.exists
    THEN {[raised |-> TRUE, returned |-> FALSE, table |-> m]}
    ELSE LET executed == {m.rows[i].migration : i \in DOMAIN m.rows}
             pending == SelectSeq(MigrationFiles, LAMBDA f : f \notin executed)
             run[n \in 0..Len(pending)] ==
                 IF n = 0 THEN m.rows ELSE ExecuteMigration(run[n - 1], pending[n])
         IN  {[raised |-> FALSE, returned |-> (n = Len(pending)),
               table |-> [exists |-> TRUE, rows |-> run[n]]] :
                  n \in 0..Len(pending)}

\* migrate.py lines 246-250: `python migrate.py migrate`.
Migrate ==
    /\ \E o \in MigrateOutcomes(InitMigrationsTable(migrations)) :
          /\ migrations' = o.table
          /\ command' = [name |-> "migrate", steps |-> 0, raised |-> o.raised,
                         returned |-> o.returned, before |-> migrations.rows,
                         after |-> o.table.rows]
    /\ UNCHANGED <<versions, activation, pipelineVars, renderVars>>

\* migrate.py lines 125-163: the rows of the highest batch are deleted;
\* `steps` is printed and not used otherwise.
RollbackRows(rows, steps) ==
    LET last_batch == MaxBatch(rows)
    IN  IF last_batch = 0 THEN rows
        ELSE SelectSeq(rows, LAMBDA row : row.batch # last_batch)

\* migrate.py lines 251-253: `python migrate.py rollback [n]`.
Rollback ==
    /\ \E steps \in 1..Len(MigrationFiles) :
          LET m == InitMigrationsTable(migrations)
              rows == RollbackRows(m.rows, steps)
          IN  /\ migrations' = [exists |-> TRUE, rows |-> rows]
              /\ command' = [name |-> "rollback", steps |-> steps,
                             raised |-> FALSE, returned |-> TRUE,
                             before |-> m.rows, after |-> rows]
    /\ UNCHANGED <<versions, activation, pipelineVars, renderVars>>

\* migrate.py lines 254-255 and 182-203: `python migrate.py fresh`.  Every
\* table but sqlite_sequence is dropped, `migrations` and resume_versions
\* among them, and migrate() runs on what is left.
Fresh ==
    /\ \E o \in MigrateOutcomes([exists |-> FALSE, rows |-> <<>>]) :
          /\ migrations' = o.table
          /\ command' = [name |-> "fresh", steps |-> 0, raised |-> o.raised,
                         returned |-> o.returned, before |-> migrations.rows,
                         after |-> o.table.rows]
    /\ versions' = [v \in VersionIds |-> NoVersion]
    /\ UNCHANGED <<activation, pipelineVars, renderVars>>

\* The requests on resume versions, database.py lines 236-352.
NextVersions ==
    \/ CreateResumeVersion
    \/ UpdateResumeVersion
    \/ DeleteResumeVersion
    \/ SetActiveResumeVersion

SpecVersions == Init /\ [][NextVersions]_vars

\* The commands of the migration CLI on a database whose resume_versions
\* table gains and loses rows meanwhile.
NextMigrations ==
    \/ Migrate
    \/ Rollback
    \/ Fresh
    \/ CreateResumeVersion
    \/ DeleteResumeVersion

SpecMigrations == Init /\ [][NextMigrations]_vars

\* =============================================================== claims
Done(r) == pc[r] = "done"

\* The deadline did not expire during request r.
OnTime(r) == cancelledAt[r] = ""

LiveBrowsers == {r \in Requests : browser[r] = "live"}

\* C1: every export that succeeds hands back at most max_pdf_size bytes.
C1_SizeInvariant ==
    \A r \in Requests :
        response[r].status = 200 => response[r].size <= max_pdf_size

\* C1 witness: an export succeeded with exactly max_pdf_size bytes.
C1_Witness ==
    \E r \in Requests :
        /\ response[r].status = 200
        /\ response[r].size = max_pdf_size
        /\ renderResult[r] = Returned(max_pdf_size)

\* C2: a render that completes on time with more than max_pdf_size bytes
\* is answered with 413 PDF_TOO_LARGE carrying the actual and maximum size.
C2_TooLargeIs413 ==
    \A r \in Requests :
        (/\ Done(r) /\ OnTime(r) /\ ~closeRaised[r]
         /\ renderResult[r].ok /\ renderResult[r].size > max_pdf_size)
        => /\ response[r].status = 413
           /\ response[r].error = "PDF_TOO_LARGE"
           /\ response[r].actual = renderResult[r].size
           /\ response[r].max = max_pdf_size

\* C3: a request whose render was still in flight when the deadline expired
\* is answered with 408 PDF_GENERATION_TIMEOUT, on both entry points.
C3_TimeoutIs408 ==
    \A r \in Requests :
        (Done(r) /\ ~OnTime(r))
        => /\ response[r].status = 408
           /\ response[r].error = "PDF_GENERATION_TIMEOUT"

\* C4: once _generate_pdf_with_playwright has returned or raised, no
\* browser it launched is live, whichever engine call succeeded or threw.
C4_NoSurfaceLeak ==
    \A r \in Requests : pc[r] \notin InFlight => browser[r] # "live"

\* C4 witness: page.pdf raised after the browser was launched, the call
\* ended with that error and the browser is closed.
C4_Witness ==
    \E r \in Requests :
        /\ Done(r) /\ OnTime(r)
        /\ renderResult[r] = Raised(EngineError("pdf failed"))
        /\ browser[r] = "closed"
        /\ response[r].status = 500

\* C5: once the deadline has expired the coroutine runs no further render
\* step, only its cleanup, and when the request has been answered no
\* browser it started is live.
C5_NoLeakOnTimeout ==
    \A r \in Requests :
        ~OnTime(r)
        => /\ pc[r] \in {"close", "done"}
           /\ (Done(r) => browser[r] \notin {"live"})

\* C5 witness: the deadline expired during chromium.launch, the browser had
\* been started, it is down and the caller has the Timeout answer.
C5_Witness ==
    \E r \in Requests :
        /\ cancelledAt[r] = "launch"
        /\ Done(r)
        /\ browser[r] = "killed"
        /\ response[r].status = 408

\* C6: the number of live browsers never exceeds the pool capacity; with a
\* capacity of 1, no two requests hold a browser at the same time.
C6_BoundedSurfaces == Cardinality(LiveBrowsers) <= 1

\* C7: POST /export/pdf-from-html with html_content missing or empty is
\* answered with 400 MISSING_HTML_CONTENT and never reaches the engine.
C7_MissingHtmlRejected ==
    \A r \in Requests :
        (/\ req[r].endpoint = "pdf-from-html" /\ req[r].bodyOk
         /\ (~req[r].hasHtml \/ Len(req[r].html) = 0))
        => /\ Done(r)
           /\ response[r].status = 400
           /\ response[r].error = "MISSING_HTML_CONTENT"
           /\ driver[r] = "none"
           /\ browser[r] = "none"

\* C7 witness: a request with html_content "" was answered with 400.
C7_Witness ==
    \E r \in Requests :
        /\ req[r].endpoint = "pdf-from-html"
        /\ req[r].bodyOk /\ req[r].hasHtml /\ req[r].html = <<>>
        /\ response[r].status = 400

\* The body of request r passed FastAPI's validation and its handler ran.
HandlerCalled(r) == req[r].endpoint = "pdf-from-html" \/ rendered[r]

C9_EngineFailureReported ==
    \A r \in Requests :
        (/\ Done(r) /\ OnTime(r)
         /\ ~renderResult[r].ok /\ renderResult[r].exc.type = "Error")
        => /\ response[r].status = 500
           /\ response[r].error = "PDF_GENERATION_FAILED"
           /\ Range(renderResult[r].exc.message) \subseteq Range(response[r].message)

\* C10: when browser.close() raises, the answer is the one the render
\* earned: the PDF if bytes within the limit were produced, the render's
\* own error if the render failed.
C10_CloseFailureInvisible ==
    \A r \in Requests :
        (Done(r) /\ OnTime(r) /\ closeRaised[r])
        => /\ (renderResult[r].ok /\ renderResult[r].size <= max_pdf_size)
                => /\ response[r].status = 200
                   /\ response[r].size = renderResult[r].size
           /\ ~renderResult[r].ok
                => Range(renderResult[r].exc.message) \subseteq Range(response[r].message)

\* C11: every export request that reached generate_pdf_from_html ends with
\* bytes or an error, whatever the engine does, also when it answers no call.
C11_Terminates == \A r \in Requests : (pc[r] = "start") ~> Done(r)

\* The latest call of _render_resume_template returned the HTML.
RenderedNow == cur.called /\ cur.ok

\* resume_data holds no experience (skills) list, or an empty one.
NoExperience(resume_data) ==
    "experience" \notin resume_data.keys \/ resume_data.experience = <<>>
NoSkills(resume_data) ==
    "skills" \notin resume_data.keys \/ resume_data.skills = <<>>

\* C12: the HTML rendered for a resume without experience holds no
\* Experience heading, and the HTML rendered for a resume without skills
\* holds no Skills heading.
C12_EmptySectionsElided ==
    RenderedNow
    => /\ NoExperience(cur.resume) => Text("Experience") \notin Range(cur.html)
       /\ NoSkills(cur.resume) =>
             /\ Text("Skills") \notin Range(cur.html)
             /\ Text("Technical Skills") \notin Range(cur.html)

\* C13: the HTML rendered for a resume with experience entries holds, for
\* every entry, its role, organization, start date, its end date or
\* "Present", and every one of its bullets.
C13_ExperienceExpanded ==
    RenderedNow
    => \A i \in DOMAIN cur.resume.experience :
          LET exp == cur.resume.experience[i]
          IN  /\ Text(exp.role) \in Range(cur.html)
              /\ Text(exp.organization) \in Range(cur.html)
              /\ Text(exp.startDate) \in Range(cur.html)
              /\ Text(IF exp.endDate = None THEN "Present" ELSE exp.endDate)
                    \in Range(cur.html)
              /\ \A j \in DOMAIN exp.items : Text(exp.items[j]) \in Range(cur.html)

C15_ScalarsEscaped ==
    RenderedNow
    => \A i \in DOMAIN cur.html :
          ~(cur.html[i].kind = "char" /\ cur.html[i].text \in {"<", ">"})

\* C17: once a resume has been rendered, every later rendering of the same
\* resume succeeds with the same HTML, whatever happened to the template file
\* in between.
C17_TemplateLoadedOnce ==
    (cur.called /\ prev.called /\ prev.ok /\ cur.resume = prev.resume)
    => (cur.ok /\ cur.html = prev.html)

\* C18: the process starts serving only with the template file in place.
C18_NoServingWithoutTemplate == [][(~serving /\ serving') => tfile.exists]_vars

C20_UnknownKeysIgnored ==
    \A r \in Requests :
        (/\ Done(r) /\ OnTime(r) /\ ~closeRaised[r]
         /\ ~(req[r].options \subseteq PdfParameters)
         /\ renderResult[r].exc.type # "Error")
        => response[r].status \in {200, 413}

\* C21: a /export/pdf request answered with the PDF carries a filename that
\* is the title, character by character, with " " turned into "_" and upper
\* case into lower case, followed by "_resume.pdf"; it holds no space and no
\* upper-case letter.
C21_DefaultFilename ==
    \A r \in Requests :
        (Done(r) /\ req[r].endpoint = "pdf" /\ response[r].status = 200)
        => LET title == req[r].title
               name == response[r].filename
               UpperCase == {"M", "C", "V", "T", "OMEGA"}
           IN  /\ Len(name) = Len(title) + 11
               /\ SubSeq(name, Len(title) + 1, Len(name))
                     = <<"_", "r", "e", "s", "u", "m", "e", ".", "p", "d", "f">>
               /\ \A i \in DOMAIN title :
                     /\ title[i] = " " => name[i] = "_"
                     /\ title[i] = "M" => name[i] = "m"
                     /\ title[i] = "C" => name[i] = "c"
                     /\ title[i] = "V" => name[i] = "v"
                     /\ title[i] = "T" => name[i] = "t"
                     /\ title[i] \notin UpperCase \cup {" "} => name[i] = title[i]
               /\ \A i \in DOMAIN name : name[i] \notin UpperCase \cup {" "}

\* C21 witness: the resume titled "My CV" was answered with the PDF.
C21_Witness ==
    \E r \in Requests :
        /\ req[r].title = <<"M", "y", " ", "C", "V">>
        /\ response[r].status = 200
        /\ response[r].filename # <<>>

\* Request r ended with the outcome of the size check: 413, or the 500 that
\* wraps it.
TooLargeOutcome(r) ==
    Done(r) /\ (response[r].status = 413 \/ "PDF_TOO_LARGE" \in Range(response[r].message))

\* The engine has been started for request r.
EngineStarted(r) ==
    driver[r] # "none" \/ browser[r] # "none" \/ pc[r] \in InFlight \ {"start"}

\* C22: the engine is started for a /export/pdf request only after the
\* template rendering returned HTML, and a request ends with the outcome of
\* the size check only when the conversion returned its bytes within the
\* deadline, never when it timed out.
C22_StagesInOrder ==
    \A r \in Requests :
        /\ (req[r].endpoint = "pdf" /\ (EngineStarted(r) \/ pc[r] = "start"))
              => (rendered[r] /\ req[r].hasHtml)
        /\ TooLargeOutcome(r)
              => /\ OnTime(r)
                 /\ renderResult[r].ok
                 /\ renderResult[r].size > max_pdf_size
                 /\ response[r].status # 408
        /\ (Done(r) /\ ~OnTime(r)) => ~TooLargeOutcome(r)

\* C22 witness: one request failed in the template rendering and ended with
\* no engine, another went through every stage and ended at the size check.
C22_Witness ==
    /\ \E r \in Requests :
          /\ Done(r) /\ req[r].endpoint = "pdf" /\ rendered[r] /\ ~req[r].hasHtml
          /\ ~EngineStarted(r)
    /\ \E r \in Requests : TooLargeOutcome(r) /\ req[r].endpoint = "pdf"

\* C23: a step of one request changes nothing that belongs to another
\* request; a browser comes up only by the launch of its own request, which
\* had none before, and a request that has had a browser never launches
\* another.
C23_RequestIsolation ==
    [][\A r \in Requests :
          /\ pc'[r] = pc[r]
                => /\ req'[r] = req[r]
                   /\ driver'[r] = driver[r]
                   /\ browser'[r] = browser[r]
                   /\ cancelledAt'[r] = cancelledAt[r]
                   /\ renderResult'[r] = renderResult[r]
                   /\ closeRaised'[r] = closeRaised[r]
                   /\ response'[r] = response[r]
                   /\ rendered'[r] = rendered[r]
          /\ (browser'[r] = "live" /\ browser[r] # "live")
                => (browser[r] = "none" /\ pc[r] = "launch")
          /\ browser[r] # "none" => browser'[r] # "none"]_vars

\* C23 witness: one request has closed its browser while the browser of
\* another is up.
C23_Witness ==
    \E r1, r2 \in Requests :
        /\ r1 # r2
        /\ browser[r1] = "closed" /\ Done(r1)
        /\ browser[r2] = "live"

\* resume_data holds no summary, None, or "".
NoSummary(resume_data) ==
    \/ "summary" \notin resume_data.keys
    \/ "summary" \in resume_data.nulls
    \/ resume_data.summary = <<>>

\* C24: with the template in place, rendering a resume whose summary is
\* absent, None or "" succeeds, and the HTML holds neither the Summary
\* markers nor the heading and placeholder between them.
C24_SummaryElided ==
    (cur.called /\ cur.found /\ NoSummary(cur.resume))
    => /\ cur.ok
       /\ Range(cur.html) \cap
             {Tag("<!-- Summary -->"), Tag("<!-- /Summary -->"), Text("Summary"),
              Text("Profile"), Tpl("{{ summary }}")} = {}

\* C25: in the HTML rendered for a resume with skills, the tags of the
\* template that stand before '{% if skills %}' and after its '{% endif %}'
\* occur exactly once, the closing ones at the end of the document.
C25_SkillsFrame ==
    (RenderedNow /\ ~NoSkills(cur.resume))
    => LET Count(a) == Cardinality({i \in DOMAIN cur.html : cur.html[i] = a})
       IN  /\ \A a \in {Tag("<html>"), Tag("<body>"), Tag("<h1>"), Tag("</h1>"),
                         Tag("</body>"), Tag("</html>")} : Count(a) = 1
           /\ SubSeq(cur.html, 2, 4) = <<Tag("<html>"), Tag("<body>"), Tag("<h1>")>>
           /\ SubSeq(cur.html, Len(cur.html) - 1, Len(cur.html))
                 = <<Tag("</body>"), Tag("</html>")>>

\* C26: a /export/pdf-from-html request whose html_content is white space
\* only is answered with 400 and no engine is started for it.
C26_BlankHtmlRejected ==
    \A r \in Requests :
        (/\ req[r].endpoint = "pdf-from-html" /\ req[r].bodyOk /\ req[r].hasHtml
         /\ req[r].html # <<>> /\ \A i \in DOMAIN req[r].html : req[r].html[i] = " ")
        => /\ Done(r)
           /\ response[r].status = 400
           /\ driver[r] = "none" /\ browser[r] = "none"

\* C27: every user has at most one version with is_active set, whatever
\* calls of create, update, set_active and delete came before; and after a
\* set_active_resume_version(v, u) that returned true, v is the only active
\* version of u and the rows of the other users are as they were.
C27_OneActiveVersionPerUser ==
    /\ \A user_id \in UserIds : Cardinality(ActiveVersions(versions, user_id)) <= 1
    /\ (activation.called /\ activation.returned)
       => /\ ActiveVersions(activation.after, activation.user_id)
                = {activation.version_id}
          /\ \A v \in VersionIds :
                activation.before[v].user_id # activation.user_id
                => activation.after[v] = activation.before[v]

\* C28: set_active_resume_version for an id that has no row, or whose row
\* belongs to another user, returns false and leaves the is_active flag of
\* every row as it was.
C28_FailedActivationChangesNothing ==
    (/\ activation.called
     /\ \/ ~activation.before[activation.version_id].exists
        \/ activation.before[activation.version_id].user_id # activation.user_id)
    => /\ ~activation.returned
       /\ \A v \in VersionIds :
             activation.after[v].is_active = activation.before[v].is_active

\* C29: rollback(steps = n) deletes the tracking rows of the last n batches
\* and no other row, and the migrations deleted are pending afterwards.
C29_RollbackRemovesLastBatches ==
    (command.name = "rollback" /\ ~command.raised)
    => LET kept == SelectSeq(command.before,
                        LAMBDA row : row.batch <= MaxBatch(command.before) - command.steps)
       IN  /\ command.after = kept
           /\ \A i \in DOMAIN command.before :
                 command.before[i].batch > MaxBatch(command.before) - command.steps
                 => \A j \in DOMAIN command.after :
                       command.after[j].migration # command.before[i].migration

\* C30: fresh() ends without raising, and when it returns true every
\* migration file has exactly one tracking row.
C30_FreshCompletes ==
    command.name = "fresh"
    => /\ ~command.raised
       /\ command.returned
          => \A f \in Range(MigrationFiles) :
                Cardinality({i \in DOMAIN command.after :
                                command.after[i].migration = f}) = 1

====
